---- MODULE Spec2Model ----
(***************************************************************************)
(* Battleship WebSocket server (src/unnamed/part_000): the room store, the *)
(* placement validator and the per-room game state machine, one action per *)
(* event handler (connection, message by type, close).                     *)
(*                                                                         *)
(* JavaScript values are modelled as follows.                              *)
(*   - a number is a record [int, n]: int says whether Number.isInteger   *)
(*     holds of it, n is its value when it does;                           *)
(*   - null (a player's grid or ships before placement) is <<>>;           *)
(*   - a Map is a sequence of entries in insertion order, which is the     *)
(*     order rooms.entries() iterates in;                                  *)
(*   - a string the code edits (a room id) is a sequence of characters.    *)
(***************************************************************************)
EXTENDS Integers, Sequences, FiniteSets, TLC

\* rooms    the room store (the Map of line 22)
\* conn     each connection's state: "idle" before it connects, "open", "closed"
\* last     the event handled last: who it came from and the message
\* sent     what the handler of that event sent, in order: [to, msg]
\* crashed  an exception has left a listener uncaught
VARIABLES rooms, conn, last, sent, crashed

vars == <<rooms, conn, last, sent, crashed>>

\* ------------------------------------------------------------ constants

SIZE == 10

SHIP_SIZES == <<5, 4, 3, 3, 2>>

\* grid values (comment at lines 47-53 of the source)
EMPTY == 0
SHIP == 1
MISS == 2
HIT == 3

NullGrid == <<>>

NullShips == <<>>

\* ------------------------------------------------------- model bounds

\* How many cells of FireOrder the clients of Spec get to fire at.
MaxAim == 1

\* in how many of its five places a fleet given to the validator departs
\* from FleetA
MaxFaults == 2

Conns == {"c1", "c2"}

\* ----------------------------------------------------------- JS values

Num(i) == [int |-> TRUE, n |-> i]

\* a number that is no integer (1.5), or a value that is no number at all
NotInteger == [int |-> FALSE, n |-> 0]

Cell(x, y) == [x |-> Num(x), y |-> Num(y)]

isInteger(v) == v.int

Min(a, b) == IF a < b THEN a ELSE b

RECURSIVE Insert(_, _)
Insert(v, s) ==
    IF s = <<>> THEN <<v>>
    ELSE IF v <= Head(s) THEN <<v>> \o s
    ELSE <<Head(s)>> \o Insert(v, Tail(s))

\* Array.prototype.sort((a,b)=>a-b) on a list of integers
RECURSIVE sortNumeric(_)
sortNumeric(s) == IF s = <<>> THEN <<>> ELSE Insert(Head(s), sortNumeric(Tail(s)))

otherIndex(i) == IF i = 0 THEN 1 ELSE 0

emptyGrid == [y \in 0..(SIZE - 1) |-> [x \in 0..(SIZE - 1) |-> EMPTY]]

\* ------------------------------------------------- placement validator

Fail(err) == [ok |-> FALSE, err |-> err, grid |-> NullGrid, ships |-> NullShips]

\* line 61 reads s.cells of every ship: on a ship that is null the read throws
\* a TypeError and validatePlacement returns nothing
Threw == Fail("(TypeError)")

\* the overlap check forgotten
RECURSIVE checkCellsNoOverlap(_, _, _)
checkCellsNoOverlap(cells, j, grid) ==
    IF j > Len(cells) THEN ""
    ELSE LET c == cells[j] IN
         IF ~isInteger(c.x) \/ ~isInteger(c.y) THEN "Invalid coords"
         ELSE IF c.x.n < 0 \/ c.x.n >= SIZE \/ c.y.n < 0 \/ c.y.n >= SIZE
              THEN "Out of bounds"
         ELSE checkCellsNoOverlap(cells, j + 1, grid)

\* lines 72-76: the per-cell checks of one ship against the scratch grid;
\* the reason of the first failing cell, "" when all pass
RECURSIVE checkCells(_, _, _)
checkCells(cells, j, grid) ==
    IF j > Len(cells) THEN ""
    ELSE LET c == cells[j] IN
         IF ~isInteger(c.x) \/ ~isInteger(c.y) THEN "Invalid coords"
         ELSE IF c.x.n < 0 \/ c.x.n >= SIZE \/ c.y.n < 0 \/ c.y.n >= SIZE
              THEN "Out of bounds"
         ELSE IF grid[c.y.n][c.x.n] = SHIP THEN "Overlapping ships"
         ELSE checkCells(cells, j + 1, grid)

\* the loop started one pair late
contiguousFromSecond(s) == \A i \in 3..Len(s) : s[i] = s[i - 1] + 1

\* lines 89 and 94: every sorted value is its predecessor plus one
contiguous(s) == \A i \in 2..Len(s) : s[i] = s[i - 1] + 1

\* lines 90 and 95: write SHIP into the cells of a row or a column
markRow(grid, y, xs) ==
    [r \in 0..(SIZE - 1) |-> [x \in 0..(SIZE - 1) |->
        IF r = y /\ \E i \in DOMAIN xs : xs[i] = x THEN SHIP ELSE grid[r][x]]]

markCol(grid, x, ys) ==
    [y \in 0..(SIZE - 1) |-> [c \in 0..(SIZE - 1) |->
        IF c = x /\ \E i \in DOMAIN ys : ys[i] = y THEN SHIP ELSE grid[y][c]]]

\* lines 68-97: the loop over the ships, from ship i on, with the scratch grid
RECURSIVE placeShips(_, _, _)
placeShips(ships, i, grid) ==
    IF i > Len(ships) THEN [ok |-> TRUE, err |-> "", grid |-> grid, ships |-> ships]
    ELSE LET ship == ships[i]
             cells == ship.cells IN
         IF ~ship.isArray \/ Len(cells) < 2 THEN Fail("Invalid ship cells")
         ELSE LET cellErr == checkCells(cells, 1, grid) IN
         IF cellErr # "" THEN Fail(cellErr)
         ELSE LET allX == {cells[k].x.n : k \in DOMAIN cells}
                  allY == {cells[k].y.n : k \in DOMAIN cells}
                  isHoriz == Cardinality(allY) = 1 /\ Cardinality(allX) = Len(cells)
                  isVert == Cardinality(allX) = 1 /\ Cardinality(allY) = Len(cells)
                  xs == sortNumeric([k \in DOMAIN cells |-> cells[k].x.n])
                  ys == sortNumeric([k \in DOMAIN cells |-> cells[k].y.n]) IN
         IF ~isHoriz /\ ~isVert THEN Fail("Ship must be straight")
         ELSE IF isHoriz
              THEN IF ~contiguous(xs) THEN Fail("Ship cells must be contiguous")
                   ELSE placeShips(ships, i + 1, markRow(grid, cells[1].y.n, xs))
              ELSE IF ~contiguous(ys) THEN Fail("Ship cells must be contiguous")
                   ELSE placeShips(ships, i + 1, markCol(grid, cells[1].x.n, ys))

\* A placement is [isObject, ships]: isObject is FALSE for null, for a value
\* without a ships array; each ship is [isNull, isArray, cells], isNull TRUE
\* for a ship that is null, isArray FALSE for a cells value that has a length
\* and is no array (a string).
validatePlacement(placement) ==
    IF ~placement.isObject THEN Fail("Bad placement format")
    ELSE IF \E k \in DOMAIN placement.ships : placement.ships[k].isNull THEN Threw
    ELSE LET ships == placement.ships
             sizes == sortNumeric([k \in DOMAIN ships |-> Len(ships[k].cells)])
             expected == sortNumeric(SHIP_SIZES) IN
         IF Len(sizes) # Len(expected) THEN Fail("Wrong ship count")
         ELSE IF \E k \in DOMAIN expected : sizes[k] # expected[k]
              THEN Fail("Wrong ship sizes")
         ELSE placeShips(ships, 1, emptyGrid)

\* some in place of every
computeSunkSome(grid, shipCells) ==
    \E k \in DOMAIN shipCells : grid[shipCells[k].y.n][shipCells[k].x.n] = HIT

computeSunk(grid, shipCells) ==
    \A k \in DOMAIN shipCells : grid[shipCells[k].y.n][shipCells[k].x.n] = HIT

allShipsSunk(grid, ships) ==
    \A s \in DOMAIN ships : computeSunk(grid, ships[s].cells)

\* --------------------------------------------------------------- inputs

\* Room ids as makeRoomId makes them: six upper-case hex characters.
TokenA == <<"A", "1", "B", "2", "C", "3">>

TokenB == <<"0", "0", "F", "F", "0", "0">>

Tokens == {TokenA, TokenB}

\* TokenA as a client may type it: in lower case, with blanks around it
TypedTokenA == <<" ", "a", "1", "b", "2", "c", "3", " ">>

\* what the clients of Spec put in join_room's roomId
RawRoomIds == {TypedTokenA, TokenB}

Ship(cells) == [isNull |-> FALSE, isArray |-> TRUE, cells |-> cells]

\* null where a ship is expected
NullShip == [isNull |-> TRUE, isArray |-> FALSE, cells |-> <<>>]

\* rows 0..4, each ship from column 0
FleetA ==
    [isObject |-> TRUE, ships |-> <<
        Ship(<<Cell(0, 0), Cell(1, 0), Cell(2, 0), Cell(3, 0), Cell(4, 0)>>),
        Ship(<<Cell(0, 1), Cell(1, 1), Cell(2, 1), Cell(3, 1)>>),
        Ship(<<Cell(0, 2), Cell(1, 2), Cell(2, 2)>>),
        Ship(<<Cell(0, 3), Cell(1, 3), Cell(2, 3)>>),
        Ship(<<Cell(0, 4), Cell(1, 4)>>) >>]

\* columns, sizes in another order, cells not listed in order
FleetB ==
    [isObject |-> TRUE, ships |-> <<
        Ship(<<Cell(0, 1), Cell(0, 0)>>),
        Ship(<<Cell(2, 5), Cell(2, 7), Cell(2, 6)>>),
        Ship(<<Cell(9, 9), Cell(9, 8), Cell(9, 7)>>),
        Ship(<<Cell(5, 0), Cell(5, 1), Cell(5, 2), Cell(5, 3), Cell(5, 4)>>),
        Ship(<<Cell(7, 6), Cell(7, 3), Cell(7, 5), Cell(7, 4)>>) >>]

\* two ships on cell (0,1)
FleetOverlap ==
    [isObject |-> TRUE, ships |-> <<
        Ship(<<Cell(0, 0), Cell(1, 0), Cell(2, 0), Cell(3, 0), Cell(4, 0)>>),
        Ship(<<Cell(0, 1), Cell(1, 1), Cell(2, 1), Cell(3, 1)>>),
        Ship(<<Cell(0, 1), Cell(0, 2), Cell(0, 3)>>),
        Ship(<<Cell(5, 3), Cell(6, 3), Cell(7, 3)>>),
        Ship(<<Cell(0, 4), Cell(1, 4)>>) >>]

NoPlacement == [isObject |-> FALSE, ships |-> <<>>]

\* {"ships": [null, null, null, null, null]}
FleetNull == [isObject |-> TRUE, ships |-> <<NullShip, NullShip, NullShip, NullShip, NullShip>>]

\* a run of n cells from (x, y): along the row, or down the column
Row(x, y, n) ==
    SubSeq(<<Cell(x, y), Cell(x + 1, y), Cell(x + 2, y),
             Cell(x + 3, y), Cell(x + 4, y), Cell(x + 5, y)>>, 1, n)

Col(x, y, n) ==
    SubSeq(<<Cell(x, y), Cell(x, y + 1), Cell(x, y + 2),
             Cell(x, y + 3), Cell(x, y + 4), Cell(x, y + 5)>>, 1, n)

\* "ab" where the cells are expected: it has a length and is no array, and
\* its characters have no x and no y
StringShip ==
    [isNull |-> FALSE, isArray |-> FALSE,
     cells |-> <<[x |-> NotInteger, y |-> NotInteger], [x |-> NotInteger, y |-> NotInteger]>>]

\* For each of the five places of a fleet, the ships a client may put there:
\* the first is FleetA's, the others are sound in another way or break a rule.
ShipChoices == <<
    << Ship(Row(0, 0, 5)),
       Ship(Col(9, 0, 5)),
       Ship(Row(0, 0, 6)),
       Ship(<<Cell(0, 0), Cell(1, 0), Cell(2, 0), Cell(3, 0), Cell(3, 1)>>),
       Ship(<<Cell(0, 0), Cell(1, 0), Cell(2, 0), Cell(3, 0), Cell(5, 0)>>),
       Ship(Row(6, 0, 5)) >>,
    << Ship(Row(0, 1, 4)),
       Ship(Col(0, 0, 4)),
       Ship(<<Cell(2, 1), Cell(0, 1), Cell(3, 1), Cell(1, 1)>>),
       Ship(Row(0 - 1, 1, 4)) >>,
    << Ship(Row(0, 2, 3)),
       Ship(<<[x |-> NotInteger, y |-> Num(2)], Cell(1, 2), Cell(2, 2)>>),
       Ship(<<Cell(0, 2), Cell(1, 3), Cell(2, 4)>>),
       Ship(Col(7, 5, 3)) >>,
    << Ship(Row(0, 3, 3)),
       Ship(<<Cell(0, 3), Cell(0, 3), Cell(1, 3)>>) >>,
    << Ship(Row(0, 4, 2)),
       Ship(Row(0, 4, 1)),
       Ship(<<Cell(0, 4), Cell(2, 4)>>) >> >>

\* the fleets that take FleetA's ship in all but at most MaxFaults places
ChoiceFleets ==
    { [isObject |-> TRUE,
       ships |-> <<ShipChoices[1][f[1]], ShipChoices[2][f[2]], ShipChoices[3][f[3]],
                   ShipChoices[4][f[4]], ShipChoices[5][f[5]]>>] :
        f \in { g \in [DOMAIN ShipChoices -> 1..6] :
                   /\ \A k \in DOMAIN ShipChoices : g[k] <= Len(ShipChoices[k])
                   /\ Cardinality({k \in DOMAIN ShipChoices : g[k] # 1}) <= MaxFaults } }

\* FleetA with a sixth ship, and without its last
FleetOfSix == [FleetA EXCEPT !.ships = Append(@, Ship(Row(5, 5, 2)))]

FleetOfFour == [FleetA EXCEPT !.ships = SubSeq(@, 1, 4)]

\* FleetA with "ab" for the cells of its last ship
FleetString == [FleetA EXCEPT !.ships[5] = StringShip]

\* the placements the validator is tried on
ValidatorInputs ==
    ChoiceFleets \cup
        {FleetB, FleetOverlap, FleetOfSix, FleetOfFour, FleetString, NoPlacement, FleetNull}

\* every placement a client sends
Placements == {FleetA, FleetB, FleetOverlap, NoPlacement, FleetNull} \cup ValidatorInputs

\* the placements the clients of Spec send
LobbyPlacements == {FleetA, FleetNull}

\* The order in which clients work through the board: FleetA's seventeen
\* cells ship by ship, with open water (for FleetA) in between.
FireOrder == <<
    Cell(9, 9), Cell(0, 4), Cell(1, 4),
    Cell(0, 0), Cell(0, 1), Cell(1, 0), Cell(2, 0), Cell(3, 0), Cell(4, 0),
    Cell(1, 1), Cell(2, 1), Cell(3, 1), Cell(5, 0),
    Cell(0, 2), Cell(1, 2), Cell(2, 2),
    Cell(2, 3), Cell(1, 3), Cell(0, 3), Cell(6, 6) >>

\* shots the bounds check refuses
OutOfGrid == [x |-> Num(0), y |-> Num(SIZE)]

BadShots == {OutOfGrid, [x |-> NotInteger, y |-> Num(0)]}

\* validatePlacement of each placement the clients send
Validated == [p \in Placements |-> validatePlacement(p)]

\* ------------------------------------------------------------ messaging

\* safeSend against the connection states cs: the outbox out with obj added
\* for ws when ws is open
safeSend(cs, out, ws, obj) ==
    IF cs[ws] = "open" THEN Append(out, [to |-> ws, msg |-> obj]) ELSE out

RECURSIVE broadcastFrom(_, _, _, _, _)
broadcastFrom(cs, out, players, i, obj) ==
    IF i > Len(players) THEN out
    ELSE broadcastFrom(cs, safeSend(cs, out, players[i].ws, obj), players, i + 1, obj)

broadcast(cs, out, room, obj) == broadcastFrom(cs, out, room.players, 1, obj)

Error(text) == [type |-> "error", message |-> text]

Status(text) == [type |-> "status", message |-> text]

\* ----------------------------------------------------------- room store

\* String.prototype.toUpperCase on the characters the inputs use
upperChar(ch) ==
    CASE ch = "a" -> "A" [] ch = "b" -> "B" [] ch = "c" -> "C"
      [] ch = "d" -> "D" [] ch = "e" -> "E" [] ch = "f" -> "F"
      [] OTHER -> ch

toUpperCase(s) == [i \in DOMAIN s |-> upperChar(s[i])]

RECURSIVE trimStart(_)
trimStart(s) == IF s # <<>> /\ Head(s) = " " THEN trimStart(Tail(s)) ELSE s

RECURSIVE trimEnd(_)
trimEnd(s) ==
    IF s # <<>> /\ s[Len(s)] = " " THEN trimEnd(SubSeq(s, 1, Len(s) - 1)) ELSE s

trim(s) == trimEnd(trimStart(s))

\* rooms.get: the index of the entry under key, 0 when there is none
roomIndex(rs, key) ==
    IF \E r \in DOMAIN rs : rs[r].id = key
    THEN CHOOSE r \in DOMAIN rs : rs[r].id = key
    ELSE 0

\* rooms.set: an existing key keeps its place and gets the new value
roomsSet(rs, key, room) ==
    IF roomIndex(rs, key) # 0 THEN [rs EXCEPT ![roomIndex(rs, key)] = room]
    ELSE Append(rs, room)

\* rooms.delete
roomsDelete(rs, r) == SubSeq(rs, 1, r - 1) \o SubSeq(rs, r + 1, Len(rs))

hasPlayer(room, ws) == \E p \in DOMAIN room.players : room.players[p].ws = ws

\* lines 121-126: the first room, in the Map's order, that holds ws; 0 for none
findRoom(rs, ws) ==
    IF \E r \in DOMAIN rs : hasPlayer(rs[r], ws)
    THEN CHOOSE r \in DOMAIN rs :
            /\ hasPlayer(rs[r], ws)
            /\ \A q \in DOMAIN rs : hasPlayer(rs[q], ws) => r <= q
    ELSE 0

\* players.findIndex(p => p.ws === ws): the first slot (0-based) holding ws
findIndex(room, ws) ==
    (CHOOSE p \in DOMAIN room.players :
        /\ room.players[p].ws = ws
        /\ \A q \in DOMAIN room.players : room.players[q].ws = ws => p <= q) - 1

newPlayer(ws) == [ws |-> ws, ready |-> FALSE, grid |-> NullGrid, ships |-> NullShips]

\* the player in slot i (0-based) of a room
slot(room, i) == room.players[i + 1]

\* -------------------------------------------------------- state machine

Init ==
    /\ rooms = <<>>
    /\ conn = [c \in Conns |-> "idle"]
    /\ last = [from |-> "", msg |-> [type |-> "none"]]
    /\ sent = <<>>
    /\ crashed = FALSE

\* a handler that answers the sender and touches nothing else
Reply(c, obj) ==
    /\ sent' = safeSend(conn, <<>>, c, obj)
    /\ UNCHANGED <<rooms, conn, crashed>>

\* lines 111-112 and 259: a client connects and is greeted
Connect(c) ==
    /\ ~crashed
    /\ conn[c] = "idle"
    /\ last' = [from |-> c, msg |-> [type |-> "connection"]]
    /\ conn' = [conn EXCEPT ![c] = "open"]
    /\ sent' = safeSend(conn', <<>>, c,
                        [type |-> "hello", message |-> <<"Connected to Battleship server.">>])
    /\ UNCHANGED <<rooms, crashed>>

\* A TypeError thrown in the message listener (line 119 on a message that is
\* null, line 61 on a ship that is null, lines 189-192 on a defender that is
\* missing or has no grid): nothing catches it, nothing is sent, and the
\* process ends on the uncaught exception.
Throw ==
    /\ crashed' = TRUE
    /\ sent' = <<>>
    /\ UNCHANGED <<rooms, conn>>

\* lines 116-117: a frame that is no JSON
InvalidJson(c) ==
    /\ ~crashed
    /\ conn[c] = "open"
    /\ last' = [from |-> c, msg |-> [type |-> "(no JSON)"]]
    /\ Reply(c, Error(<<"Invalid JSON">>))

\* line 119: a JSON value without a type
NoType(c) ==
    /\ ~crashed
    /\ conn[c] = "open"
    /\ last' = [from |-> c, msg |-> [type |-> ""]]
    /\ sent' = <<>>
    /\ UNCHANGED <<rooms, conn, crashed>>

\* line 119 on the JSON text null: msg.type throws
NullJson(c) ==
    /\ ~crashed
    /\ conn[c] = "open"
    /\ last' = [from |-> c, msg |-> [type |-> "(null)"]]
    /\ Throw

\* lines 241-242
UnknownType(c) ==
    /\ ~crashed
    /\ conn[c] = "open"
    /\ last' = [from |-> c, msg |-> [type |-> "chat"]]
    /\ Reply(c, Error(<<"Unknown message type">>))

\* lines 129-138; tok is what makeRoomId returns
CreateRoom(c, tok) ==
    /\ ~crashed
    /\ conn[c] = "open"
    /\ last' = [from |-> c, msg |-> [type |-> "create_room"]]
    /\ rooms' = roomsSet(rooms, tok,
                         [id |-> tok, players |-> <<newPlayer(c)>>,
                          turn |-> 0, started |-> FALSE])
    /\ sent' = safeSend(conn, <<>>, c,
                        [type |-> "room_created", roomId |-> tok, player |-> 1])
    /\ UNCHANGED <<conn, crashed>>

\* one player too many let in
roomFullAtThree(room) == Len(room.players) >= 3

\* line 144
roomFull(room) == Len(room.players) >= 2

\* lines 140-155
JoinRoom(c, raw) ==
    /\ ~crashed
    /\ conn[c] = "open"
    /\ last' = [from |-> c, msg |-> [type |-> "join_room", roomId |-> raw]]
    /\ LET roomId == toUpperCase(trim(raw))
           r == roomIndex(rooms, roomId) IN
       IF r = 0 THEN Reply(c, Error(<<"Room not found">>))
       ELSE IF roomFull(rooms[r]) THEN Reply(c, Error(<<"Room full">>))
       ELSE LET joined == [rooms[r] EXCEPT !.players = Append(@, newPlayer(c))]
                o1 == safeSend(conn, <<>>, slot(joined, 0).ws,
                               [type |-> "player_joined", player |-> 2])
                o2 == safeSend(conn, o1, slot(joined, 1).ws,
                               [type |-> "room_joined", roomId |-> roomId, player |-> 2]) IN
            /\ rooms' = [rooms EXCEPT ![r] = joined]
            /\ sent' = broadcast(conn, o2, joined,
                   Status(<<"Both players connected. Place ships and press READY.">>))
            /\ UNCHANGED <<conn, crashed>>

\* line 172: the game starts when both are ready and it has not started
startsNow(room) ==
    slot(room, 0).ready /\ slot(room, 1).ready /\ ~room.started

\* `Player ${pIndex + 1} is READY.`
readyText(pIndex) == <<"Player ", IF pIndex = 0 THEN "1" ELSE "2", " is READY.">>

\* lines 157-178
PlaceReady(c, placement) ==
    /\ ~crashed
    /\ conn[c] = "open"
    /\ last' = [from |-> c, msg |-> [type |-> "place_ready", placement |-> placement]]
    /\ LET r == findRoom(rooms, c) IN
       IF r = 0 THEN Reply(c, Error(<<"Not in a room">>))
       ELSE IF Len(rooms[r].players) < 2 THEN Reply(c, Error(<<"Waiting for opponent">>))
       ELSE LET v == Validated[placement] IN
       IF v = Threw THEN Throw
       ELSE IF ~v.ok THEN Reply(c, Error(<<"Placement invalid: ", v.err>>))
       ELSE LET pIndex == findIndex(rooms[r], c)
                placed == [rooms[r] EXCEPT
                              !.players[pIndex + 1].ready = TRUE,
                              !.players[pIndex + 1].grid = v.grid,
                              !.players[pIndex + 1].ships = v.ships]
                o1 == safeSend(conn, <<>>, c, [type |-> "ready_ok"])
                o2 == broadcast(conn, o1, placed, Status(readyText(pIndex))) IN
            IF startsNow(placed)
            THEN LET begun == [placed EXCEPT !.started = TRUE, !.turn = 0] IN
                 /\ rooms' = [rooms EXCEPT ![r] = begun]
                 /\ sent' = broadcast(conn, o2, begun,
                                [type |-> "game_start", turnPlayer |-> begun.turn + 1])
                 /\ UNCHANGED <<conn, crashed>>
            ELSE /\ rooms' = [rooms EXCEPT ![r] = placed]
                 /\ sent' = o2
                 /\ UNCHANGED <<conn, crashed>>

\* lines 185: the coordinates are integers inside the grid
validCoords(x, y) ==
    /\ isInteger(x) /\ isInteger(y)
    /\ x.n >= 0 /\ x.n < SIZE /\ y.n >= 0 /\ y.n < SIZE

\* only hits remembered
alreadyShotHitOnly(cell) == cell = HIT

\* line 193: the cell has been shot at before
alreadyShot(cell) == cell = MISS \/ cell = HIT

\* every shot marked as a hit
shotCellAlwaysHit(cell) == HIT

\* lines 197-203: what the cell becomes
shotCell(cell) == IF cell = SHIP THEN HIT ELSE MISS

\* lines 210-217: the first ship that holds (x, y), 0 for none
shipAt(ships, x, y) ==
    LET has(s) == \E k \in DOMAIN ships[s].cells :
                      ships[s].cells[k].x.n = x /\ ships[s].cells[k].y.n = y IN
    IF \E s \in DOMAIN ships : has(s)
    THEN CHOOSE s \in DOMAIN ships : has(s) /\ \A q \in DOMAIN ships : has(q) => s <= q
    ELSE 0

\* lines 206-218: sunk, for a shot at (x, y) on the grid as updated
sunkBy(grid, ships, hit, x, y) ==
    hit /\ shipAt(ships, x, y) # 0 /\ computeSunk(grid, ships[shipAt(ships, x, y)].cells)

\* line 214: the size reported; 0 stands for null
sunkSizeBy(grid, ships, hit, x, y) ==
    IF sunkBy(grid, ships, hit, x, y) THEN Len(ships[shipAt(ships, x, y)].cells) ELSE 0

\* line 235: the turn after a shot that did not win
turnAfter(turn, hit) == IF ~hit THEN otherIndex(turn) ELSE turn

\* lines 192-238: the shot of slot pIndex at the integer cell (x, y) of room r,
\* once the started, turn and bounds checks have passed
resolveShot(c, r, pIndex, x, y) ==
    LET room == rooms[r]
        d == otherIndex(pIndex)
        defender == slot(room, d)
        attacker == slot(room, pIndex)
        cell == defender.grid[y.n][x.n] IN
    IF alreadyShot(cell) THEN Reply(c, Error(<<"Already shot there">>))
    ELSE LET hit == cell = SHIP
             grid == [defender.grid EXCEPT ![y.n][x.n] = shotCell(cell)]
             sunk == sunkBy(grid, defender.ships, hit, x.n, y.n)
             sunkSize == sunkSizeBy(grid, defender.ships, hit, x.n, y.n)
             win == allShipsSunk(grid, defender.ships)
             shotAt == [room EXCEPT !.players[d + 1].grid = grid]
             o1 == safeSend(conn, <<>>, attacker.ws,
                     [type |-> "shot_result", x |-> x, y |-> y, hit |-> hit,
                      sunk |-> sunk, sunkSize |-> sunkSize, win |-> win])
             o2 == safeSend(conn, o1, defender.ws,
                     [type |-> "got_shot", x |-> x, y |-> y, hit |-> hit,
                      sunk |-> sunk, sunkSize |-> sunkSize, lose |-> win]) IN
         IF win
         THEN /\ rooms' = [rooms EXCEPT ![r] = shotAt]
              /\ sent' = broadcast(conn, o2, shotAt,
                              [type |-> "game_over", winner |-> pIndex + 1])
              /\ UNCHANGED <<conn, crashed>>
         ELSE LET turned == [shotAt EXCEPT !.turn = turnAfter(room.turn, hit)] IN
              /\ rooms' = [rooms EXCEPT ![r] = turned]
              /\ sent' = broadcast(conn, o2, turned,
                              [type |-> "turn", turnPlayer |-> turned.turn + 1])
              /\ UNCHANGED <<conn, crashed>>

\* the turn check left out
notYourTurnNever(room, pIndex) == FALSE

\* line 182
notYourTurn(room, pIndex) == pIndex # room.turn

\* lines 180-239
Shot(c, x, y) ==
    /\ ~crashed
    /\ conn[c] = "open"
    /\ last' = [from |-> c, msg |-> [type |-> "shot", x |-> x, y |-> y]]
    /\ LET r == findRoom(rooms, c) IN
       IF r = 0 \/ ~rooms[r].started THEN Reply(c, Error(<<"Game not started">>))
       ELSE LET pIndex == findIndex(rooms[r], c) IN
       IF notYourTurn(rooms[r], pIndex) THEN Reply(c, Error(<<"Not your turn">>))
       ELSE IF ~validCoords(x, y) THEN Reply(c, Error(<<"Invalid shot coords">>))
       ELSE IF Len(rooms[r].players) < 2 THEN Throw
       ELSE IF slot(rooms[r], otherIndex(pIndex)).grid = NullGrid THEN Throw
       ELSE resolveShot(c, r, pIndex, x, y)

\* lines 246-257
Close(c) ==
    /\ ~crashed
    /\ conn[c] = "open"
    /\ last' = [from |-> c, msg |-> [type |-> "close"]]
    /\ conn' = [conn EXCEPT ![c] = "closed"]
    /\ LET r == findRoom(rooms, c) IN
       IF r = 0 THEN rooms' = rooms /\ sent' = <<>>
       ELSE LET idx == findIndex(rooms[r], c)
                left == [rooms[r] EXCEPT !.players =
                            SubSeq(@, 1, idx) \o SubSeq(@, idx + 2, Len(@))] IN
            IF Len(left.players) = 0
            THEN rooms' = roomsDelete(rooms, r) /\ sent' = <<>>
            ELSE /\ rooms' = [rooms EXCEPT ![r] = left]
                 /\ sent' = broadcast(conn', <<>>, left, Status(<<"Opponent disconnected.">>))
    /\ UNCHANGED crashed

\* ------------------------------------------------------ client behaviour

\* the number of FireOrder's cells that have been shot at on a grid
resolved(grid) ==
    IF grid = NullGrid THEN 0
    ELSE Cardinality({i \in DOMAIN FireOrder :
                        alreadyShot(grid[FireOrder[i].y.n][FireOrder[i].x.n])})

\* the grid a shot of c would land on, NullGrid when there is none
targetGrid(c) ==
    LET r == findRoom(rooms, c) IN
    IF r = 0 \/ Len(rooms[r].players) < 2 THEN NullGrid
    ELSE slot(rooms[r], otherIndex(findIndex(rooms[r], c))).grid

\* Clients work through FireOrder: c aims at the first cell not yet resolved
\* on the grid its shot would land on, or again at the cell before it, no
\* further than cell upTo; or it sends coordinates outside the grid.
Aims(c, upTo) ==
    LET n == resolved(targetGrid(c)) IN
    { FireOrder[i] : i \in {j \in {n, n + 1} : 1 <= j /\ j <= Min(upTo, Len(FireOrder))} }

\* Spec: every kind of message, both tokens, games of at most MaxAim cells
Next ==
    \E c \in Conns :
        \/ Connect(c)
        \/ InvalidJson(c)
        \/ NoType(c)
        \/ NullJson(c)
        \/ UnknownType(c)
        \/ \E tok \in Tokens : CreateRoom(c, tok)
        \/ \E raw \in RawRoomIds : JoinRoom(c, raw)
        \/ \E placement \in LobbyPlacements : PlaceReady(c, placement)
        \/ \E t \in Aims(c, MaxAim) \cup {OutOfGrid} : Shot(c, t.x, t.y)
        \/ Close(c)

Spec == Init /\ [][Next]_vars

\* SpecGame: the room under TokenA, whole games
NextGame ==
    \E c \in Conns :
        \/ Connect(c)
        \/ CreateRoom(c, TokenA)
        \/ JoinRoom(c, TokenA)
        \/ \E placement \in {FleetA, FleetB} : PlaceReady(c, placement)
        \/ \E t \in Aims(c, Len(FireOrder)) \cup BadShots : Shot(c, t.x, t.y)
        \/ Close(c)

SpecGame == Init /\ [][NextGame]_vars

\* SpecValidate: c1 opens the room under TokenA, c2 joins it, and c1 sends
\* every placement of ValidatorInputs
NextValidate ==
    \/ \E c \in Conns : Connect(c)
    \/ CreateRoom("c1", TokenA)
    \/ JoinRoom("c2", TokenA)
    \/ \E placement \in ValidatorInputs : PlaceReady("c1", placement)

SpecValidate == Init /\ [][NextValidate]_vars

\* ------------------------------------------------------- reading a step

\* out is one error message, sent to c
Rejected(c, out) == Len(out) = 1 /\ out[1].to = c /\ out[1].msg.type = "error"

RejectedWith(c, out, text) == out = <<[to |-> c, msg |-> Error(<<text>>)]>>

\* every cell of every ship of player p is HIT
fleetDestroyed(p) ==
    /\ p.grid # NullGrid
    /\ \A s \in DOMAIN p.ships : \A k \in DOMAIN p.ships[s].cells :
          p.grid[p.ships[s].cells[k].y.n][p.ships[s].cells[k].x.n] = HIT

\* a shot has destroyed the fleet of one of the room's players
Won(room) == \E p \in DOMAIN room.players : fleetDestroyed(room.players[p])

\* the step handles a shot message and resolves it on a grid
ShotAccepted ==
    /\ last'.msg.type = "shot"
    /\ Len(sent') > 0
    /\ sent'[1].msg.type = "shot_result"

\* the room and the slot of the sender of the step's message, before the step
StepRoom == findRoom(rooms, last'.from)

StepSlot == findIndex(rooms[StepRoom], last'.from)

DefenderBefore == slot(rooms[StepRoom], otherIndex(StepSlot))

DefenderAfter == slot(rooms'[StepRoom], otherIndex(StepSlot))

\* ---------------------------------------------------------------- claims

\* C1: once a shot has destroyed a whole fleet in a room (win = true), every
\* later shot message in that room is rejected with an error and changes no
\* grid cell and no turn.
C1_NoShotAfterWin ==
    [][ (last'.msg.type = "shot" /\ StepRoom # 0 /\ Won(rooms[StepRoom]))
            => (Rejected(last'.from, sent') /\ rooms' = rooms) ]_vars

\* C2: an accepted shot that hits and does not win leaves turn as it was, and
\* an accepted shot that misses gives the turn to the other slot.
C2_TurnFollowsHitAndMiss ==
    [][ ShotAccepted =>
          LET x == last'.msg.x.n
              y == last'.msg.y.n
              hit == DefenderBefore.grid[y][x] = SHIP
              win == fleetDestroyed(DefenderAfter) IN
          /\ (hit /\ ~win) => rooms'[StepRoom].turn = rooms[StepRoom].turn
          /\ ~hit => rooms'[StepRoom].turn = otherIndex(rooms[StepRoom].turn) ]_vars

\* C3: a shot message changes the room store only if the sender's room is
\* started and the sender holds the slot that turn names; a shot from the
\* sender whose slot is the other one is answered "Not your turn" and
\* changes nothing.
C3_ExclusiveTurn ==
    [][ last'.msg.type = "shot" =>
          LET c == last'.from
              r == StepRoom IN
          /\ rooms' # rooms =>
                /\ r # 0
                /\ rooms[r].started
                /\ rooms[r].turn + 1 <= Len(rooms[r].players)
                /\ slot(rooms[r], rooms[r].turn).ws = c
                /\ \A q \in DOMAIN rooms : q # r => rooms'[q] = rooms[q]
          /\ (r # 0 /\ rooms[r].started /\ StepSlot = otherIndex(rooms[r].turn)) =>
                /\ RejectedWith(c, sent', "Not your turn")
                /\ rooms' = rooms /\ conn' = conn /\ crashed' = crashed ]_vars

C3_Witness ==
    /\ last.msg.type = "shot"
    /\ RejectedWith(last.from, sent, "Not your turn")
    /\ findRoom(rooms, last.from) # 0
    /\ rooms[findRoom(rooms, last.from)].started

\* C4: the win flag an accepted shot reports is true exactly when every cell
\* of every ship of the defender is HIT after the shot; its sunk flag is true
\* exactly when the shot hit and every cell of the ship that holds (x, y) is
\* HIT, and sunkSize is then that ship's number of cells (0, for null,
\* otherwise).
C4_WinAndSunkFlags ==
    [][ ShotAccepted =>
          LET m == sent'[1].msg
              x == last'.msg.x.n
              y == last'.msg.y.n
              ships == DefenderAfter.ships
              grid == DefenderAfter.grid
              holds(s) == \E k \in DOMAIN ships[s].cells :
                              ships[s].cells[k].x.n = x /\ ships[s].cells[k].y.n = y
              allHit(s) == \A k \in DOMAIN ships[s].cells :
                              grid[ships[s].cells[k].y.n][ships[s].cells[k].x.n] = HIT
              hit == DefenderBefore.grid[y][x] = SHIP IN
          /\ m.win = (\A s \in DOMAIN ships : allHit(s))
          /\ m.hit = hit
          /\ m.sunk = (hit /\ \E s \in DOMAIN ships : holds(s) /\ allHit(s))
          /\ m.sunk => \E s \in DOMAIN ships :
                          holds(s) /\ allHit(s) /\ m.sunkSize = Len(ships[s].cells)
          /\ ~m.sunk => m.sunkSize = 0 ]_vars

C4_Witness ==
    /\ last.msg.type = "shot"
    /\ Len(sent) > 0
    /\ sent[1].msg.type = "shot_result"
    /\ sent[1].msg.win /\ sent[1].msg.sunk /\ sent[1].msg.sunkSize = 3

\* C5: no connection holds more than one slot of the room store.
C5_OneSlotPerConnection ==
    \A c \in Conns :
        Cardinality({ rp \in (DOMAIN rooms) \X {1, 2} :
                        /\ rp[2] \in DOMAIN rooms[rp[1]].players
                        /\ rooms[rp[1]].players[rp[2]].ws = c }) <= 1

\* the connections in a room's slots, in order
members(room) == [p \in DOMAIN room.players |-> room.players[p].ws]

\* the step's create_room put a new room under the token of rooms[r]
Displaced(r) ==
    /\ last'.msg.type = "create_room"
    /\ roomIndex(rooms', rooms[r].id) # 0
    /\ rooms'[roomIndex(rooms', rooms[r].id)] =
          [id |-> rooms[r].id, players |-> <<newPlayer(last'.from)>>,
           turn |-> 0, started |-> FALSE]

C7_PlacementIrrevocable ==
    [][ (/\ last'.msg.type = "place_ready"
         /\ StepRoom # 0
         /\ slot(rooms[StepRoom], StepSlot).grid # NullGrid)
            => /\ slot(rooms'[StepRoom], StepSlot).grid = slot(rooms[StepRoom], StepSlot).grid
               /\ slot(rooms'[StepRoom], StepSlot).ships = slot(rooms[StepRoom], StepSlot).ships
      ]_vars

Cells == (0..(SIZE - 1)) \X (0..(SIZE - 1))

\* C8: a cell that is HIT or MISS keeps its state while its player stays in
\* the room, whatever message is handled, and a cell becomes HIT or MISS
\* only in a step that resolves a shot.
C8_ResolvedCellsTerminal ==
    [][ last'.msg.type \in {"shot", "place_ready", "join_room", "create_room"} =>
          \A r \in DOMAIN rooms : \A p \in DOMAIN rooms[r].players :
             (/\ rooms[r].players[p].grid # NullGrid
              /\ r \in DOMAIN rooms'
              /\ rooms'[r].id = rooms[r].id
              /\ p \in DOMAIN rooms'[r].players
              /\ rooms'[r].players[p].ws = rooms[r].players[p].ws
              /\ rooms'[r].players[p].grid # NullGrid)
                 => \A xy \in Cells :
                       LET before == rooms[r].players[p].grid[xy[2]][xy[1]]
                           after == rooms'[r].players[p].grid[xy[2]][xy[1]] IN
                       /\ alreadyShot(before) => after = before
                       /\ (~alreadyShot(before) /\ alreadyShot(after)) => ShotAccepted ]_vars

\* C9: a shot of the turn holder at a cell of the defender's grid that is
\* HIT or MISS is answered with one error and changes nothing, so the same
\* shot sent again meets the same state and gets the same answer.
C9_RepeatedShotRejected ==
    [][ (/\ last'.msg.type = "shot"
         /\ validCoords(last'.msg.x, last'.msg.y)
         /\ StepRoom # 0
         /\ rooms[StepRoom].started
         /\ StepSlot = rooms[StepRoom].turn
         /\ Len(rooms[StepRoom].players) = 2
         /\ DefenderBefore.grid # NullGrid
         /\ DefenderBefore.grid[last'.msg.y.n][last'.msg.x.n] \in {HIT, MISS})
            => /\ RejectedWith(last'.from, sent', "Already shot there")
               /\ rooms' = rooms /\ conn' = conn /\ crashed' = crashed ]_vars

C9_Witness ==
    /\ last.msg.type = "shot"
    /\ RejectedWith(last.from, sent, "Already shot there")
    /\ LET room == rooms[findRoom(rooms, last.from)] IN
       slot(room, otherIndex(findIndex(room, last.from))).grid[last.msg.y.n][last.msg.x.n] = MISS

\* message obj was sent to connection c in the step
SentTo(c, obj) == \E i \in DOMAIN sent' : sent'[i] = [to |-> c, msg |-> obj]

GameStart == [type |-> "game_start", turnPlayer |-> 1]

\* C10: a room's started goes from false to true only in a place_ready step
\* that leaves both its slots ready, with turn 0 and game_start (turnPlayer
\* 1) sent to both players; started never goes back to false; and game_start
\* is sent in no other step.
C10_StartsOnce ==
    [][ /\ \A r \in DOMAIN rooms :
              LET q == roomIndex(rooms', rooms[r].id) IN
              (q # 0 /\ ~Displaced(r)) =>
                 /\ rooms[r].started => rooms'[q].started
                 /\ (~rooms[r].started /\ rooms'[q].started) =>
                       /\ last'.msg.type = "place_ready"
                       /\ StepRoom = r
                       /\ Len(rooms'[q].players) = 2
                       /\ \A p \in DOMAIN rooms'[q].players : rooms'[q].players[p].ready
                       /\ rooms'[q].turn = 0
                       /\ \A p \in DOMAIN rooms'[q].players :
                             SentTo(rooms'[q].players[p].ws, GameStart)
        /\ (\E i \in DOMAIN sent' : sent'[i].msg.type = "game_start") =>
              /\ last'.msg.type = "place_ready"
              /\ StepRoom # 0
              /\ ~rooms[StepRoom].started
              /\ rooms'[StepRoom].started
              /\ Cardinality({i \in DOMAIN sent' : sent'[i].msg.type = "game_start"}) <= 2 ]_vars

\* ------------------------------------------- a fleet as the rules want it

\* how many ships of a list have n cells
shipsOfSize(ships, n) == Cardinality({k \in DOMAIN ships : Len(ships[k].cells) = n})

\* the ships have the sizes of SHIP_SIZES, as a multiset
RightSizes(ships) ==
    /\ Len(ships) = Len(SHIP_SIZES)
    /\ \A n \in 0..(SIZE + 1) :
          shipsOfSize(ships, n) = Cardinality({k \in DOMAIN SHIP_SIZES : SHIP_SIZES[k] = n})

\* the cell is a pair of integers inside the grid
OnGrid(c) ==
    /\ c.x.int /\ c.y.int
    /\ c.x.n \in 0..(SIZE - 1) /\ c.y.n \in 0..(SIZE - 1)

\* the cells of a ship, as a set of pairs
cellSet(ship) == {<<ship.cells[k].x.n, ship.cells[k].y.n>> : k \in DOMAIN ship.cells}

\* the ship lies on one row or one column, on as many cells as it lists,
\* with nothing between its first and its last cell left out
Straight(ship) ==
    LET cs == cellSet(ship)
        xs == {c[1] : c \in cs}
        ys == {c[2] : c \in cs}
        run(vs) == \A v \in 0..(SIZE - 1) :
                     (\E a \in vs : a <= v) /\ (\E b \in vs : v <= b) => v \in vs IN
    /\ Cardinality(cs) = Len(ship.cells)
    /\ \/ Cardinality(ys) = 1 /\ run(xs)
       \/ Cardinality(xs) = 1 /\ run(ys)

\* the rules of the fleet: five ships of sizes {5,4,3,3,2}, every cell on the
\* grid, no cell in two ships, every ship straight and without a gap
WellPlaced(placement) ==
    /\ placement.isObject
    /\ \A k \in DOMAIN placement.ships :
          ~placement.ships[k].isNull /\ placement.ships[k].isArray
    /\ RightSizes(placement.ships)
    /\ \A k \in DOMAIN placement.ships : \A j \in DOMAIN placement.ships[k].cells :
          OnGrid(placement.ships[k].cells[j])
    /\ \A k, j \in DOMAIN placement.ships :
          k # j => cellSet(placement.ships[k]) \cap cellSet(placement.ships[j]) = {}
    /\ \A k \in DOMAIN placement.ships : Straight(placement.ships[k])

\* C11: a join_room for an unknown or a full room, a place_ready outside a
\* room, without an opponent or with a placement that breaks the rules of the
\* fleet, a shot before the start, out of turn, outside the grid or at a
\* resolved cell, and a message of unknown type, each send one error to the
\* sender, nothing to anyone else, and leave the room store as it was.
C11_RejectionsChangeNothing ==
    [][ LET c == last'.from
            m == last'.msg
            r == StepRoom
            joinRejected ==
                /\ m.type = "join_room"
                /\ LET q == roomIndex(rooms, toUpperCase(trim(m.roomId))) IN
                   q = 0 \/ Len(rooms[q].players) >= 2
            placeRejected ==
                /\ m.type = "place_ready"
                /\ (r = 0 \/ Len(rooms[r].players) < 2 \/ ~WellPlaced(m.placement))
            shotRejected ==
                /\ m.type = "shot"
                /\ \/ r = 0
                   \/ ~rooms[r].started
                   \/ StepSlot # rooms[r].turn
                   \/ ~OnGrid([x |-> m.x, y |-> m.y])
                   \/ /\ Len(rooms[r].players) = 2
                      /\ DefenderBefore.grid # NullGrid
                      /\ DefenderBefore.grid[m.y.n][m.x.n] \in {HIT, MISS}
            unknown == m.type = "chat" IN
        (joinRejected \/ placeRejected \/ shotRejected \/ unknown)
            => (Rejected(c, sent') /\ rooms' = rooms) ]_vars

\* the place_ready just handled was accepted
PlacementAccepted ==
    /\ last.msg.type = "place_ready"
    /\ Len(sent) > 0
    /\ sent[1] = [to |-> last.from, msg |-> [type |-> "ready_ok"]]

\* C12: a placement that reaches the validator is accepted exactly when it
\* keeps the rules of the fleet (five ships of sizes {5,4,3,3,2}, integer
\* cells on the grid, no cell in two ships, every ship straight and
\* contiguous), and the grid then stored has SHIP exactly on the cells of the
\* ships and EMPTY elsewhere, with the fleet stored as sent.
C12_ValidatorAcceptsSoundFleets ==
    (/\ last.msg.type = "place_ready"
     /\ findRoom(rooms, last.from) # 0
     /\ Len(rooms[findRoom(rooms, last.from)].players) = 2)
        => LET placement == last.msg.placement
               room == rooms[findRoom(rooms, last.from)]
               stored == slot(room, findIndex(room, last.from))
               fleetCells == UNION {cellSet(placement.ships[k]) : k \in DOMAIN placement.ships} IN
           /\ PlacementAccepted <=> WellPlaced(placement)
           /\ PlacementAccepted =>
                 /\ stored.ready
                 /\ stored.ships = placement.ships
                 /\ \A xy \in Cells :
                       stored.grid[xy[2]][xy[1]] = IF xy \in fleetCells THEN SHIP ELSE EMPTY

\* a fleet with ships down columns and cells out of order has been accepted
C12_Witness ==
    /\ last.msg.type = "place_ready"
    /\ last.msg.placement = FleetB
    /\ Len(sent) > 0
    /\ sent[1].msg.type = "ready_ok"
    /\ slot(rooms[findRoom(rooms, last.from)], 0).grid[9][9] = SHIP

\* the placement gets as far as the validator's rules on cells: it is an
\* object, none of its ships is null, and its ships are arrays of cells
Readable(placement) ==
    /\ placement.isObject
    /\ \A k \in DOMAIN placement.ships :
          ~placement.ships[k].isNull /\ placement.ships[k].isArray

\* the place_ready just handled reached the validator with a readable
\* placement
Validating ==
    /\ last.msg.type = "place_ready"
    /\ findRoom(rooms, last.from) # 0
    /\ Len(rooms[findRoom(rooms, last.from)].players) = 2
    /\ Readable(last.msg.placement)

\* the reason given for the placement just refused
GivenReason ==
    IF Len(sent) = 1 /\ sent[1].msg.type = "error" /\ Len(sent[1].msg.message) = 2
    THEN sent[1].msg.message[2]
    ELSE "(none)"

\* the rules on cells, in the order of the specification
SizeReasons == {"Wrong ship count", "Wrong ship sizes"}

CoordReasons == {"Invalid coords", "Out of bounds"}

OverlapReasons == {"Overlapping ships"}

ShapeReasons == {"Ship must be straight", "Ship cells must be contiguous"}

allOnGrid(ships) == \A k \in DOMAIN ships : \A j \in DOMAIN ships[k].cells : OnGrid(ships[k].cells[j])

onEarlier(ships, k, c) ==
    OnGrid(c) /\ \E q \in 1..(k - 1) : <<c.x.n, c.y.n>> \in cellSet(ships[q])

badCell(ships, k, c) == ~OnGrid(c) \/ onEarlier(ships, k, c)

badShip(ships, k) ==
    \/ \E j \in DOMAIN ships[k].cells : badCell(ships, k, ships[k].cells[j])
    \/ ~Straight(ships[k])

\* the reason the first bad ship is refused for: that of its first bad cell
\* (integer before bounds before overlap), and with no bad cell that of its
\* shape (one row or column on distinct cells, then no gap)
shipReason(ships, k) ==
    LET cells == ships[k].cells
        cs == cellSet(ships[k]) IN
    IF \E j \in DOMAIN cells : badCell(ships, k, cells[j])
    THEN LET j == CHOOSE i \in DOMAIN cells :
                     /\ badCell(ships, k, cells[i])
                     /\ \A h \in 1..(i - 1) : ~badCell(ships, k, cells[h])
             c == cells[j] IN
         IF ~c.x.int \/ ~c.y.int THEN "Invalid coords"
         ELSE IF ~OnGrid(c) THEN "Out of bounds"
         ELSE "Overlapping ships"
    ELSE IF \/ Cardinality(cs) # Len(cells)
            \/ Cardinality({c[1] : c \in cs}) # 1 /\ Cardinality({c[2] : c \in cs}) # 1
         THEN "Ship must be straight"
         ELSE "Ship cells must be contiguous"

FleetBentAndOut ==
    [isObject |-> TRUE,
     ships |-> <<ShipChoices[1][4], ShipChoices[2][4], ShipChoices[3][1],
                 ShipChoices[4][1], ShipChoices[5][1]>>]

Disconnect == last'.msg.type = "close" /\ StepRoom # 0

\* the room of the store after the step that has the token of rooms[r];
\* 0 when there is none
After(r) == roomIndex(rooms', rooms[r].id)

\* C14: a disconnect takes the disconnecting player out of its room and
\* nothing else: every other player of the room is in the same slot after
\* it, with its ready flag, grid and fleet, the room's turn and started are
\* as before, and every other room is as before.
C14_DisconnectRemovesOnlyThatSlot ==
    [][ Disconnect =>
          LET r == StepRoom IN
          /\ \A p \in DOMAIN rooms[r].players :
                rooms[r].players[p].ws # last'.from =>
                   /\ After(r) # 0
                   /\ p \in DOMAIN rooms'[After(r)].players
                   /\ rooms'[After(r)].players[p] = rooms[r].players[p]
          /\ After(r) # 0 =>
                /\ rooms'[After(r)].turn = rooms[r].turn
                /\ rooms'[After(r)].started = rooms[r].started
          /\ \A q \in DOMAIN rooms :
                q # r => (After(q) # 0 /\ rooms'[After(q)] = rooms[q]) ]_vars

\* the keys of the room store
keys(rs) == {rs[r].id : r \in DOMAIN rs}

\* C15: no room of the store is without players; the disconnect of a
\* connection deletes, in that step, every room in which it was the last
\* player; a token comes into the store by create_room only, and a join_room
\* for a token that is not in the store is answered "Room not found".
C15_NoEmptyRoom ==
    [][ /\ \A r \in DOMAIN rooms' : Len(rooms'[r].players) >= 1
        /\ last'.msg.type = "close" =>
              \A r \in DOMAIN rooms :
                 (\A p \in DOMAIN rooms[r].players : rooms[r].players[p].ws = last'.from)
                    => rooms[r].id \notin keys(rooms')
        /\ keys(rooms') \ keys(rooms) # {} => last'.msg.type = "create_room"
        /\ (/\ last'.msg.type = "join_room"
            /\ toUpperCase(trim(last'.msg.roomId)) \notin keys(rooms))
              => (RejectedWith(last'.from, sent', "Room not found") /\ rooms' = rooms) ]_vars

\* C16: a create_room adds one room to the store, under a token that was
\* not a key of it, and leaves every room that was there as it was.
C16_CreateNeverReplaces ==
    [][ last'.msg.type = "create_room" =>
          /\ Len(rooms') = Len(rooms) + 1
          /\ keys(rooms') \ keys(rooms) # {}
          /\ \A r \in DOMAIN rooms : After(r) # 0 /\ rooms'[After(r)] = rooms[r] ]_vars

\* C17: an accepted shot sends shot_result to the attacker, then got_shot
\* with the same x, y, hit, sunk and sunkSize and with lose = win to the
\* defender, then to both players game_over naming the attacker's slot + 1
\* when win, and otherwise turn naming the turn holder after the shot; and
\* nothing else.
C17_ShotNotifications ==
    [][ ShotAccepted =>
          LET room == rooms'[StepRoom]
              res == sent'[1].msg
              closing ==
                  IF res.win THEN [type |-> "game_over", winner |-> StepSlot + 1]
                  ELSE [type |-> "turn", turnPlayer |-> room.turn + 1] IN
          /\ sent'[1].to = last'.from
          /\ res.x = last'.msg.x /\ res.y = last'.msg.y
          /\ Len(sent') = 4
          /\ sent'[2] = [to |-> DefenderBefore.ws,
                         msg |-> [type |-> "got_shot", x |-> res.x, y |-> res.y,
                                  hit |-> res.hit, sunk |-> res.sunk,
                                  sunkSize |-> res.sunkSize, lose |-> res.win]]
          /\ sent'[3] = [to |-> slot(room, 0).ws, msg |-> closing]
          /\ sent'[4] = [to |-> slot(room, 1).ws, msg |-> closing] ]_vars

\* the last shot of a game: both players are told who won
C17_Witness ==
    /\ last.msg.type = "shot"
    /\ Len(sent) = 4
    /\ sent[1].msg.type = "shot_result" /\ sent[1].msg.win
    /\ sent[2].msg.type = "got_shot" /\ sent[2].msg.lose
    /\ sent[3].msg = [type |-> "game_over", winner |-> 1]
    /\ sent[4].msg = [type |-> "game_over", winner |-> 1]
    /\ sent[3].to # sent[4].to

\* the frame handled in the step does not decode to a message with a type:
\* it is no JSON, or JSON without a type, or the JSON value null
Malformed == last'.msg.type \in {"(no JSON)", "", "(null)"}

\* C18: a frame that is no JSON, or that decodes to a value without a type,
\* is answered with one error to the sender and changes nothing.
C18_MalformedEnvelopeAnswered ==
    [][ Malformed =>
          /\ Rejected(last'.from, sent')
          /\ rooms' = rooms /\ conn' = conn /\ crashed' = crashed ]_vars

\* C19: a shot that passes the started, turn and bounds checks finds a
\* player in the other slot, with a grid from an accepted placement, and is
\* handled without a fault.
C19_DefenderPresent ==
    [][ (/\ last'.msg.type = "shot"
         /\ StepRoom # 0
         /\ rooms[StepRoom].started
         /\ StepSlot = rooms[StepRoom].turn
         /\ OnGrid([x |-> last'.msg.x, y |-> last'.msg.y]))
            => /\ Len(rooms[StepRoom].players) = 2
               /\ DefenderBefore.ready
               /\ DefenderBefore.grid # NullGrid
               /\ ~crashed' ]_vars

\* the cells of a grid in one of the given states
cellsIn(grid, states) == {xy \in Cells : grid[xy[2]][xy[1]] \in states}

\* the number of cells of a fleet of SHIP_SIZES
RECURSIVE sum(_)
sum(s) == IF s = <<>> THEN 0 ELSE Head(s) + sum(Tail(s))

FleetCells == sum(SHIP_SIZES)

\* C20: for every player that is ready, the cells of its grid that are SHIP
\* or HIT are the cells of its fleet, every MISS cell is outside the fleet,
\* at most 17 cells are HIT, and its fleet is destroyed (as win reports) only
\* with all 17 cells of the fleet HIT.
C20_GridMatchesFleet ==
    \A r \in DOMAIN rooms : \A p \in DOMAIN rooms[r].players :
        LET player == rooms[r].players[p]
            fleet == UNION {cellSet(player.ships[k]) : k \in DOMAIN player.ships} IN
        player.ready =>
            /\ player.grid # NullGrid
            /\ cellsIn(player.grid, {SHIP, HIT}) = fleet
            /\ cellsIn(player.grid, {MISS}) \cap fleet = {}
            /\ Cardinality(fleet) = FleetCells
            /\ Cardinality(cellsIn(player.grid, {HIT})) <= FleetCells
            /\ allShipsSunk(player.grid, player.ships)
                  <=> Cardinality(cellsIn(player.grid, {HIT})) = FleetCells

\* a player with hits and misses on its grid, its fleet not yet destroyed
C20_Witness ==
    \E r \in DOMAIN rooms : \E p \in DOMAIN rooms[r].players :
        /\ rooms[r].players[p].ready
        /\ Cardinality(cellsIn(rooms[r].players[p].grid, {HIT})) = FleetCells - 1
        /\ Cardinality(cellsIn(rooms[r].players[p].grid, {MISS})) >= 2

====
